---- MODULE Spec2Model ----
(***************************************************************************)
(* A model of llama_index/agent/v1/schema.py (TaskStep, TaskStepOutput,    *)
(* Task, AgentState, BaseAgentStepEngine) and of                           *)
(* llama_index/ingestion/client/types/transformation_definition.py         *)
(* (TransformationDefinition).                                             *)
(*                                                                         *)
(* Python objects live in heaps: a reference is an index into the heap of  *)
(* its class.  `steps`, `outputs` and `tasks` hold the TaskStep,           *)
(* TaskStepOutput and Task objects; `heap` holds the deque and list        *)
(* objects that a Task's step_queue and completed_steps fields point to.   *)
(***************************************************************************)
EXTENDS Integers, Sequences, FiniteSets, TLC

VARIABLES
    steps,        \* heap of TaskStep objects
    parent,       \* parent[i]: the step that steps[i] was derived from by get_next_step, 0 if none
    outputs,      \* heap of TaskStepOutput objects
    tasks,        \* heap of Task objects
    heap,         \* heap of deque / list objects (sequences of references)
    uuid_count,   \* how many uuid4() identifiers have been generated
    task_dict,    \* AgentState.task_dict: task id -> reference to a Task
    enqueued,     \* enqueued[t]: the step references appended to task t's step_queue, in order
    ret,          \* the call that has just returned: operation, argument, outcome, value
    dto           \* the TransformationDefinition scenario: phase, instance, serialized form, parsed instance

vars == <<steps, parent, outputs, tasks, heap, uuid_count, task_dict, enqueued, ret, dto>>

agentVars == <<steps, parent, outputs, tasks, heap, uuid_count, task_dict, enqueued>>

(***************************************************************************)
(* Bounds and input sets                                                   *)
(***************************************************************************)
\* Task objects in Spec
MaxTasks == 2
\* TaskStep objects in Spec
MaxSteps == 1
\* Task objects in SpecLoop
LoopTasks == 1
\* TaskStep objects in SpecLoop
LoopSteps == 3
\* next_steps of one output
MaxNext == 2
\* TaskStep objects constructed directly in SpecStep
MaxRoots == 1
\* TaskStep objects in SpecStep
MaxChain == 3

TaskIds == {"t1", "t2"}
StepIds == {"s1", "s2"}
RootStepIds == {"s0"}
Inputs == {"hello"}
MemoryRefs == {"M1", "M2"}
TaskMemories == {"M1"}
UuidPool == <<"uuid-1", "uuid-2", "uuid-3", "uuid-4", "uuid-5", "uuid-6", "uuid-7",
             "uuid-8", "uuid-9", "uuid-10", "uuid-11", "uuid-12">>
MissingId == "missing"

None == "None"
NoValue == 0
EmptyDict == [k \in {} |-> NoValue]
\* a Dict[str, Any] value carried in step_state / extra_state, as a set of <<key, value>> pairs
StepStates == {{}, {<<"k", 1>>}}

Put(d, k, v) == [x \in (DOMAIN d) \cup {k} |-> IF x = k THEN v ELSE d[x]]
Del(d, k) == [x \in (DOMAIN d) \ {k} |-> d[x]]

Idle == [op |-> "idle", arg |-> "", status |-> "", value |-> NoValue]

(***************************************************************************)
(* BaseMemory: an opaque object; a field of type BaseMemory holds the      *)
(* reference it is given.                                                  *)
(***************************************************************************)
AttachMemory(m) == m

(***************************************************************************)
(* TaskStep                                                                *)
(***************************************************************************)
\* TaskStep(**kw): task_id, step_id and memory are required; input defaults to
\* None and step_state to a new empty dict.
TaskStep(kw) ==
    [task_id    |-> kw.task_id,
     step_id    |-> kw.step_id,
     input      |-> IF "input" \in DOMAIN kw THEN kw.input ELSE None,
     memory     |-> AttachMemory(kw.memory),
     step_state |-> IF "step_state" \in DOMAIN kw THEN kw.step_state ELSE {}]

\* a plausible slip: step_state is not handed to the new step
get_next_step_drop_state(h, self, step_id, input) ==
    Append(h, TaskStep([task_id |-> h[self].task_id,
                        step_id |-> step_id,
                        input   |-> input,
                        memory  |-> h[self].memory]))

\* TaskStep.get_next_step(self, step_id, input=None): the step heap after the
\* call; the new step is the last object of the heap.
get_next_step(h, self, step_id, input) ==
    Append(h, TaskStep([task_id    |-> h[self].task_id,
                        step_id    |-> step_id,
                        input      |-> input,
                        memory     |-> h[self].memory,
                        step_state |-> h[self].step_state]))

(***************************************************************************)
(* TaskStepOutput                                                          *)
(***************************************************************************)
\* a plausible slip: is_last declared with default=True
TaskStepOutput_last_by_default(kw) ==
    [output     |-> kw.output,
     task_step  |-> kw.task_step,
     next_steps |-> kw.next_steps,
     is_last    |-> IF "is_last" \in DOMAIN kw THEN kw.is_last ELSE TRUE,
     fields_set |-> DOMAIN kw]

\* TaskStepOutput(**kw): output, task_step and next_steps are required; is_last
\* defaults to False.  No validator relates is_last and next_steps.
TaskStepOutput(kw) ==
    [output     |-> kw.output,
     task_step  |-> kw.task_step,
     next_steps |-> kw.next_steps,
     is_last    |-> IF "is_last" \in DOMAIN kw THEN kw.is_last ELSE FALSE,
     fields_set |-> DOMAIN kw]

(***************************************************************************)
(* Task                                                                    *)
(***************************************************************************)
\* a plausible slip: one deque / list object evaluated once and shared by every Task
shared_default(h, n) == n

\* default_factory=deque / default_factory=list: the n-th object allocated by
\* this construction is a new object of the heap h
default_factory(h, n) == Len(h) + n

\* default_factory=lambda: str(uuid.uuid4()): an identifier never generated before
uuid4(count) == UuidPool[count + 1]

\* Task(**kw) with step_queue, completed_steps and extra_state left to their
\* default factories; h is the deque / list heap before the construction.
Task(kw, h, count) ==
    [task_id         |-> IF "task_id" \in DOMAIN kw THEN kw.task_id ELSE uuid4(count),
     input           |-> kw.input,
     memory          |-> AttachMemory(kw.memory),
     step_queue      |-> default_factory(h, 1),
     completed_steps |-> default_factory(h, 2),
     extra_state     |-> {}]

(***************************************************************************)
(* AgentState                                                              *)
(***************************************************************************)
\* a plausible slip: the key is checked but some entry, not the key's, is returned
get_task_first(td, task_id) ==
    IF task_id \in DOMAIN td
    THEN [status |-> "ok", value |-> td[CHOOSE k \in DOMAIN td : TRUE], task_dict |-> td]
    ELSE [status |-> "KeyError", value |-> NoValue, task_dict |-> td]

\* a plausible slip: self.task_dict.pop(task_id)
get_task_pop(td, task_id) ==
    IF task_id \in DOMAIN td
    THEN [status |-> "ok", value |-> td[task_id], task_dict |-> Del(td, task_id)]
    ELSE [status |-> "KeyError", value |-> NoValue, task_dict |-> td]

\* a plausible slip: self.task_dict.get(task_id)
get_task_or_none(td, task_id) ==
    IF task_id \in DOMAIN td
    THEN [status |-> "ok", value |-> td[task_id], task_dict |-> td]
    ELSE [status |-> "ok", value |-> NoValue, task_dict |-> td]

\* AgentState.get_task: self.task_dict[task_id]; a missing key raises KeyError.
\* The outcome carries the task_dict the call leaves behind.
get_task(td, task_id) ==
    IF task_id \in DOMAIN td
    THEN [status |-> "ok", value |-> td[task_id], task_dict |-> td]
    ELSE [status |-> "KeyError", value |-> NoValue, task_dict |-> td]

\* a plausible slip: the body of get_step_queue pasted into get_completed_steps
get_completed_steps_pasted(td, ts, task_id) ==
    LET r == get_task(td, task_id)
    IN  IF r.status # "ok" THEN r
        ELSE IF r.value = NoValue THEN [r EXCEPT !.status = "AttributeError"]
        ELSE [r EXCEPT !.value = ts[r.value].step_queue]

\* AgentState.get_completed_steps: self.get_task(task_id).completed_steps
\* (the attribute read on None raises AttributeError)
get_completed_steps(td, ts, task_id) ==
    LET r == get_task(td, task_id)
    IN  IF r.status # "ok" THEN r
        ELSE IF r.value = NoValue THEN [r EXCEPT !.status = "AttributeError"]
        ELSE [r EXCEPT !.value = ts[r.value].completed_steps]

\* AgentState.get_step_queue: self.get_task(task_id).step_queue
get_step_queue(td, ts, task_id) ==
    LET r == get_task(td, task_id)
    IN  IF r.status # "ok" THEN r
        ELSE IF r.value = NoValue THEN [r EXCEPT !.status = "AttributeError"]
        ELSE [r EXCEPT !.value = ts[r.value].step_queue]

(***************************************************************************)
(* BaseAgentStepEngine: what the body of each abstract method does when it *)
(* is run (through super() or as BaseAgentStepEngine.m(engine, ...)).      *)
(* initialize_step and run_step have a docstring for a body and return     *)
(* None; the other three raise NotImplementedError (the two coroutines     *)
(* when they are awaited).                                                 *)
(***************************************************************************)
AbstractMethods == {"initialize_step", "run_step", "arun_step", "stream_step", "astream_step"}

BaseAgentStepEngine(method) ==
    CASE method = "initialize_step" -> "None"
      [] method = "run_step"        -> "None"
      [] method = "arun_step"       -> "NotImplementedError"
      [] method = "stream_step"     -> "NotImplementedError"
      [] method = "astream_step"    -> "NotImplementedError"

(***************************************************************************)
(* The step loop of a concrete engine and its runner, which the schema     *)
(* describes but does not contain: the first step of a task is appended to *)
(* its step_queue; a step is taken from the left of the queue, run, its    *)
(* next_steps are appended to the queue and its output to completed_steps. *)
(***************************************************************************)
\* a step loop that takes the newest step instead of the oldest
pop(q) == [step |-> q[Len(q)], rest |-> SubSeq(q, 1, Len(q) - 1)]

\* deque.popleft()
popleft(q) == [step |-> Head(q), rest |-> Tail(q)]

\* a concrete initialize_step(task): the first step of the task
initialize_step(task, step_id) ==
    TaskStep([task_id |-> task.task_id,
              step_id |-> step_id,
              input   |-> task.input,
              memory  |-> task.memory])

\* the step heap after n calls step.get_next_step(step_id=str(uuid.uuid4()))
RECURSIVE Derive(_, _, _, _)
Derive(h, self, count, n) ==
    IF n = 0 THEN h
    ELSE Derive(get_next_step(h, self, uuid4(count), None), self, count + 1, n - 1)

RefsAfter(n, k) == [i \in 1..k |-> n + i]

TaskKwargs ==
    [input : Inputs, memory : TaskMemories]
        \cup [task_id : TaskIds, input : Inputs, memory : TaskMemories]

StepKwargs ==
    [task_id : TaskIds, step_id : RootStepIds, memory : MemoryRefs]
        \cup [task_id : TaskIds, step_id : RootStepIds, memory : MemoryRefs,
              input : Inputs, step_state : StepStates]

LookupIds == (DOMAIN task_dict) \cup {MissingId}

(***************************************************************************)
(* Initial state: AgentState() has an empty task_dict; nothing else exists *)
(***************************************************************************)
Init ==
    /\ steps = <<>>
    /\ parent = <<>>
    /\ outputs = <<>>
    /\ tasks = <<>>
    /\ heap = <<>>
    /\ uuid_count = 0
    /\ task_dict = EmptyDict
    /\ enqueued = <<>>
    /\ ret = Idle
    /\ dto = [phase |-> "none"]

(***************************************************************************)
(* Actions on the agent state                                              *)
(***************************************************************************)
\* Task(**kw)
ConstructTask(kw) ==
    /\ tasks' = Append(tasks, Task(kw, heap, uuid_count))
    /\ heap' = heap \o << <<>>, <<>> >>
    /\ uuid_count' = IF "task_id" \in DOMAIN kw THEN uuid_count ELSE uuid_count + 1
    /\ enqueued' = Append(enqueued, <<>>)
    /\ ret' = Idle
    /\ UNCHANGED <<steps, parent, outputs, task_dict, dto>>

\* the caller's state.task_dict[task.task_id] = task
Register(t) ==
    /\ t \in DOMAIN tasks
    /\ task_dict' = Put(task_dict, tasks[t].task_id, t)
    /\ ret' = Idle
    /\ UNCHANGED <<steps, parent, outputs, tasks, heap, uuid_count, enqueued, dto>>

\* the caller's del state.task_dict[task_id]
Remove(task_id) ==
    /\ task_id \in DOMAIN task_dict
    /\ task_dict' = Del(task_dict, task_id)
    /\ ret' = Idle
    /\ UNCHANGED <<steps, parent, outputs, tasks, heap, uuid_count, enqueued, dto>>

CallGetTask(task_id) ==
    LET r == get_task(task_dict, task_id)
    IN  /\ ret' = [op |-> "get_task", arg |-> task_id, status |-> r.status, value |-> r.value]
        /\ task_dict' = r.task_dict
        /\ UNCHANGED <<steps, parent, outputs, tasks, heap, uuid_count, enqueued, dto>>

CallGetCompletedSteps(task_id) ==
    LET r == get_completed_steps(task_dict, tasks, task_id)
    IN  /\ ret' = [op |-> "get_completed_steps", arg |-> task_id, status |-> r.status, value |-> r.value]
        /\ task_dict' = r.task_dict
        /\ UNCHANGED <<steps, parent, outputs, tasks, heap, uuid_count, enqueued, dto>>

CallGetStepQueue(task_id) ==
    LET r == get_step_queue(task_dict, tasks, task_id)
    IN  /\ ret' = [op |-> "get_step_queue", arg |-> task_id, status |-> r.status, value |-> r.value]
        /\ task_dict' = r.task_dict
        /\ UNCHANGED <<steps, parent, outputs, tasks, heap, uuid_count, enqueued, dto>>

\* the body of an abstract method of BaseAgentStepEngine is run
InvokeBase(method) ==
    /\ ret' = [op |-> method, arg |-> "", status |-> BaseAgentStepEngine(method), value |-> NoValue]
    /\ UNCHANGED <<agentVars, dto>>

\* the runner creates the first step of a registered task and queues it
StartTask(task_id) ==
    LET t == get_task(task_dict, task_id)
        q == get_step_queue(task_dict, tasks, task_id)
    IN  /\ t.status = "ok" /\ t.value # NoValue /\ q.status = "ok"
        /\ steps' = Append(steps, initialize_step(tasks[t.value], uuid4(uuid_count)))
        /\ parent' = Append(parent, 0)
        /\ heap' = [heap EXCEPT ![q.value] = Append(@, Len(steps) + 1)]
        /\ enqueued' = [enqueued EXCEPT ![t.value] = Append(@, Len(steps) + 1)]
        /\ uuid_count' = uuid_count + 1
        /\ task_dict' = q.task_dict
        /\ ret' = Idle
        /\ UNCHANGED <<outputs, tasks, dto>>

\* one step of a registered task is executed by a concrete engine: the engine
\* derives n next steps with get_next_step and decides output and is_last
ExecuteStep(task_id, n, okw) ==
    LET t == get_task(task_dict, task_id)
        q == get_step_queue(task_dict, tasks, task_id)
        c == get_completed_steps(task_dict, tasks, task_id)
    IN  /\ t.status = "ok" /\ t.value # NoValue /\ q.status = "ok" /\ c.status = "ok"
        /\ heap[q.value] # <<>>
        /\ LET d    == popleft(heap[q.value])
               new  == RefsAfter(Len(steps), n)
               out  == TaskStepOutput(
                          [f \in {"output", "task_step", "next_steps"} \cup DOMAIN okw |->
                              CASE f = "output"     -> "out"
                                [] f = "task_step"  -> d.step
                                [] f = "next_steps" -> new
                                [] OTHER            -> okw[f]])
               h1   == [heap EXCEPT ![q.value] = d.rest]
               h2   == [h1 EXCEPT ![q.value] = @ \o new]
               h3   == [h2 EXCEPT ![c.value] = Append(@, Len(outputs) + 1)]
           IN  /\ d.step \in DOMAIN steps
               /\ steps' = Derive(steps, d.step, uuid_count, n)
               /\ parent' = parent \o [i \in 1..n |-> d.step]
               /\ outputs' = Append(outputs, out)
               /\ heap' = h3
               /\ enqueued' = [enqueued EXCEPT ![t.value] = @ \o new]
        /\ uuid_count' = uuid_count + n
        /\ task_dict' = c.task_dict
        /\ ret' = Idle
        /\ UNCHANGED <<tasks, dto>>

OutputKwargs == {EmptyDict, [is_last |-> TRUE]}

(***************************************************************************)
(* Spec: the registry.  Tasks are constructed, registered and removed by   *)
(* the caller, looked up through AgentState, and run by the step loop.     *)
(***************************************************************************)
Next ==
    \/ \E kw \in TaskKwargs : Len(tasks) < MaxTasks /\ ConstructTask(kw)
    \/ \E t \in DOMAIN tasks : Register(t)
    \/ \E k \in DOMAIN task_dict : Remove(k)
    \/ \E k \in LookupIds : CallGetTask(k)
    \/ \E k \in LookupIds : CallGetCompletedSteps(k)
    \/ \E k \in LookupIds : CallGetStepQueue(k)
    \/ \E k \in LookupIds : Len(steps) < MaxSteps /\ StartTask(k)
    \/ \E k \in LookupIds, n \in 0..MaxNext, okw \in OutputKwargs :
          Len(steps) + n <= MaxSteps /\ ExecuteStep(k, n, okw)

Spec == Init /\ [][Next]_vars

(***************************************************************************)
(* SpecLoop: the step loop on registered tasks.                            *)
(***************************************************************************)
NextLoop ==
    \/ \E kw \in TaskKwargs : Len(tasks) < LoopTasks /\ ConstructTask(kw)
    \/ \E t \in DOMAIN tasks : Register(t)
    \/ \E k \in LookupIds : Len(steps) < LoopSteps /\ StartTask(k)
    \/ \E k \in LookupIds, n \in 0..MaxNext, okw \in OutputKwargs :
          Len(steps) + n <= LoopSteps /\ ExecuteStep(k, n, okw)

SpecLoop == Init /\ [][NextLoop]_vars

(***************************************************************************)
(* SpecStep: TaskStep objects and the abstract engine interface.           *)
(***************************************************************************)
\* TaskStep(**kw)
ConstructStep(kw) ==
    /\ steps' = Append(steps, TaskStep(kw))
    /\ parent' = Append(parent, 0)
    /\ ret' = Idle
    /\ UNCHANGED <<outputs, tasks, heap, uuid_count, task_dict, enqueued, dto>>

\* steps[self].get_next_step(step_id, input) or steps[self].get_next_step(step_id)
CallGetNextStep(self, step_id, input) ==
    /\ self \in DOMAIN steps
    /\ steps' = get_next_step(steps, self, step_id, input)
    /\ parent' = Append(parent, self)
    /\ ret' = [op |-> "get_next_step", arg |-> step_id, status |-> "ok",
               value |-> Len(steps'), self |-> self, input |-> input]
    /\ UNCHANGED <<outputs, tasks, heap, uuid_count, task_dict, enqueued, dto>>

NextStep ==
    \/ \E kw \in StepKwargs :
          Cardinality({i \in DOMAIN parent : parent[i] = 0}) < MaxRoots /\ ConstructStep(kw)
    \/ \E self \in DOMAIN steps, sid \in StepIds, input \in Inputs \cup {None} :
          Len(steps) < MaxChain /\ CallGetNextStep(self, sid, input)
    \/ \E m \in AbstractMethods : InvokeBase(m)

SpecStep == Init /\ [][NextStep]_vars

(***************************************************************************)
(* TransformationDefinition                                                *)
(***************************************************************************)
Fields == {"name", "label", "transformation_category"}
FieldOrder == <<"name", "label", "transformation_category">>

\* The two enumerations, each a set of <<member, value>> pairs
ConfigurableTransformationNames ==
    {<<"ConfigurableTransformationNames.CHARACTER_SPLITTER", "CHARACTER_SPLITTER">>,
     <<"ConfigurableTransformationNames.SENTENCE_SPLITTER", "SENTENCE_SPLITTER">>}

TransformationCategories ==
    {<<"TransformationCategories.NODE_PARSER", "NODE_PARSER">>,
     <<"TransformationCategories.EMBEDDING", "EMBEDDING">>}

Members(E) == {p[1] : p \in E}
Values(E) == {p[2] : p \in E}
ValueOf(E, m) == (CHOOSE p \in E : p[1] = m)[2]
MemberOf(E, v) == (CHOOSE p \in E : p[2] = v)[1]

Labels == {"Character splitter", "NODE_PARSER"}

\* the declared type of each field
FieldEnum(f) ==
    IF f = "name" THEN ConfigurableTransformationNames ELSE TransformationCategories

IsEnumField(f) == f \in {"name", "transformation_category"}

\* an attribute that was never assigned
Unset == "<unset>"

\* validation of one field: an enumeration field takes a member or the value
\* of a member; label takes a string
ValidField(f, v) ==
    IF IsEnumField(f) THEN v \in Members(FieldEnum(f)) \cup Values(FieldEnum(f)) ELSE TRUE

Coerce(f, v) ==
    IF IsEnumField(f) /\ v \in Values(FieldEnum(f)) THEN MemberOf(FieldEnum(f), v) ELSE v

\* TransformationDefinition(**obj) / parse_obj(obj): the three fields are
\* required (none has a default); the record keeps which fields were set
parse_obj(obj) ==
    IF Fields \subseteq DOMAIN obj /\ \A f \in Fields : ValidField(f, obj[f])
    THEN [status |-> "ok",
          value  |-> [name                    |-> Coerce("name", obj["name"]),
                      label                   |-> obj["label"],
                      transformation_category |-> Coerce("transformation_category",
                                                         obj["transformation_category"]),
                      fields_set              |-> Fields]]
    ELSE [status |-> "ValidationError", value |-> Unset]

\* TransformationDefinition.construct(**obj): no validation, only the given
\* attributes exist
construct(obj) ==
    [f \in Fields \cup {"fields_set"} |->
        IF f = "fields_set" THEN Fields \cap DOMAIN obj
        ELSE IF f \in DOMAIN obj THEN obj[f] ELSE Unset]

\* no field declares an alias: by_alias=True leaves the names as they are
Alias(f) == f

\* the fields super().dict() / super().json() emit under the given options
Emitted(d, kw) ==
    IF kw.exclude_unset THEN d.fields_set ELSE {f \in Fields : d[f] # Unset}

kwargs_with_defaults == [by_alias |-> TRUE, exclude_unset |-> TRUE]

\* a plausible slip: the set fields are the ones left out
dict_unset_only(d) ==
    [k \in {Alias(f) : f \in Fields \ d.fields_set} |-> Unset]

\* TransformationDefinition.dict(): a mapping that holds the field values as they are
dict(d) ==
    [k \in {Alias(f) : f \in Emitted(d, kwargs_with_defaults)} |->
        d[CHOOSE f \in Fields : Alias(f) = k]]

\* the JSON encoding of a value: an enumeration member is written as its value
Encode(f, v) ==
    IF IsEnumField(f) /\ v \in Members(FieldEnum(f)) THEN ValueOf(FieldEnum(f), v) ELSE v

RECURSIVE JsonMembers(_, _, _)
JsonMembers(d, fs, order) ==
    IF order = <<>> THEN <<>>
    ELSE (IF Head(order) \in fs
          THEN << <<Alias(Head(order)), Encode(Head(order), d[Head(order)])>> >>
          ELSE <<>>) \o JsonMembers(d, fs, Tail(order))

\* TransformationDefinition.json(): the members of the JSON object, in field order
json(d) == JsonMembers(d, Emitted(d, kwargs_with_defaults), FieldOrder)

\* json.loads of such a text
loads(text) ==
    [k \in {text[i][1] : i \in DOMAIN text} |->
        (CHOOSE p \in {text[i] : i \in DOMAIN text} : p[1] = k)[2]]

\* TransformationDefinition.parse_raw(text)
parse_raw(text) == parse_obj(loads(text))

\* BaseModel.__eq__: the dict() of both records are compared
Eq(a, b) == dict(a) = dict(b)

\* keyword arguments: an enumeration field by member or by value, label a string
DtoKwargs ==
    {obj \in UNION {[S -> Members(ConfigurableTransformationNames)
                            \cup Values(ConfigurableTransformationNames)
                            \cup Members(TransformationCategories) \cup Labels] :
                       S \in SUBSET Fields} :
        \A f \in DOMAIN obj :
            IF IsEnumField(f)
            THEN obj[f] \in Members(FieldEnum(f)) \cup Values(FieldEnum(f))
            ELSE obj[f] \in Labels}

\* keyword arguments that hold members, not values
ByMember(obj) == \A f \in DOMAIN obj : IsEnumField(f) => obj[f] \in Members(FieldEnum(f))

\* TransformationDefinition(**obj); enumeration fields may be given by value
DtoConstruct(obj) ==
    /\ dto.phase = "none"
    /\ parse_obj(obj).status = "ok"
    /\ dto' = [phase |-> "built", d |-> parse_obj(obj).value]
    /\ UNCHANGED <<agentVars, ret>>

\* TransformationDefinition.construct(**obj)
DtoConstructUnvalidated(obj) ==
    /\ dto.phase = "none"
    /\ dto' = [phase |-> "built", d |-> construct(obj)]
    /\ UNCHANGED <<agentVars, ret>>

DtoDict ==
    /\ dto.phase = "built"
    /\ dto' = [phase |-> "dict", d |-> dto.d, ser |-> dict(dto.d)]
    /\ UNCHANGED <<agentVars, ret>>

DtoJson ==
    /\ dto.phase = "built"
    /\ dto' = [phase |-> "json", d |-> dto.d, ser |-> json(dto.d)]
    /\ UNCHANGED <<agentVars, ret>>

DtoParseObj ==
    /\ dto.phase = "dict"
    /\ dto' = [phase |-> "parsed", via |-> "dict", d |-> dto.d, ser |-> dto.ser,
               out |-> parse_obj(dto.ser)]
    /\ UNCHANGED <<agentVars, ret>>

DtoParseRaw ==
    /\ dto.phase = "json"
    /\ dto' = [phase |-> "parsed", via |-> "json", d |-> dto.d, ser |-> dto.ser,
               out |-> parse_raw(dto.ser)]
    /\ UNCHANGED <<agentVars, ret>>

NextDTO ==
    \/ \E obj \in DtoKwargs : DtoConstruct(obj)
    \/ \E obj \in {o \in DtoKwargs : ByMember(o)} : DtoConstructUnvalidated(obj)
    \/ DtoDict
    \/ DtoJson
    \/ DtoParseObj
    \/ DtoParseRaw

SpecDTO == Init /\ [][NextDTO]_vars

(***************************************************************************)
(* Properties                                                              *)
(***************************************************************************)
Getters == {"get_task", "get_completed_steps", "get_step_queue"}

IsPrefix(a, b) == Len(a) <= Len(b) /\ SubSeq(b, 1, Len(a)) = a

\* the task_step of each output of a completed_steps list, in order
TaskStepsOf(list) == [i \in DOMAIN list |-> outputs[list[i]].task_step]

\* the directly constructed step a step descends from
RECURSIVE Root(_)
Root(i) == IF parent[i] = 0 THEN i ELSE Root(parent[i])

\* C1: for every task registered in task_dict under its own task_id, a call
\* get_task(task_id) succeeds and returns that very task, whose fields the call
\* leaves as they were, whatever else is registered.
C1_GetTaskReturnsRegistered ==
    [][\A k \in DOMAIN task_dict :
          (ret'.op = "get_task" /\ ret'.arg = k /\ tasks[task_dict[k]].task_id = k)
              => /\ ret'.status = "ok"
                 /\ ret'.value = task_dict[k]
                 /\ tasks'[ret'.value] = tasks[task_dict[k]]
                 /\ heap' = heap]_vars

C1_Witness ==
    /\ ret.op = "get_task" /\ ret.status = "ok"
    /\ Cardinality(DOMAIN task_dict) = 2
    /\ ret.arg \in TaskIds
    /\ tasks[ret.value].task_id = ret.arg
    /\ task_dict[ret.arg] = 2

\* C2: a call of get_task, get_completed_steps or get_step_queue with a task_id
\* that is no key of task_dict raises KeyError, returns no value and leaves
\* task_dict as it was.
C2_AbsentIdRaises ==
    [][(ret'.op \in Getters /\ ret'.arg \notin DOMAIN task_dict)
          => /\ ret'.status = "KeyError"
             /\ ret'.value = NoValue
             /\ task_dict' = task_dict]_vars

C2_Witness ==
    /\ ret.op = "get_step_queue" /\ ret.status = "KeyError"
    /\ ret.arg \notin DOMAIN task_dict
    /\ DOMAIN task_dict # {}

\* C3: for a task_id present in task_dict, get_completed_steps returns the
\* completed_steps object of the task get_task returns, and get_step_queue its
\* step_queue object: the same elements in the same order.
C3_GettersDelegate ==
    (ret.op \in {"get_completed_steps", "get_step_queue"} /\ ret.arg \in DOMAIN task_dict)
        => LET task == tasks[get_task(task_dict, ret.arg).value]
               obj  == IF ret.op = "get_step_queue" THEN task.step_queue
                       ELSE task.completed_steps
           IN  /\ ret.status = "ok"
               /\ ret.value = obj
               /\ heap[ret.value] = heap[obj]

C3_Witness ==
    /\ ret.op = "get_completed_steps" /\ ret.status = "ok"
    /\ heap[ret.value] # <<>>
    /\ Len(tasks) = 2

C5_FreshTaskEmpty ==
    /\ \A t \in DOMAIN tasks :
          enqueued[t] = <<>>
              => heap[tasks[t].step_queue] = <<>> /\ heap[tasks[t].completed_steps] = <<>>
    /\ (ret.op \in {"get_completed_steps", "get_step_queue"} /\ ret.status = "ok"
          /\ ret.arg \in DOMAIN task_dict /\ enqueued[task_dict[ret.arg]] = <<>>)
              => heap[ret.value] = <<>>

C5_Witness ==
    /\ Len(tasks) = 2
    /\ enqueued[1] # <<>> /\ enqueued[2] = <<>>
    /\ ret.op = "get_step_queue" /\ ret.status = "ok"
    /\ task_dict[ret.arg] = 2

\* C6: the body of each abstract method of BaseAgentStepEngine raises
\* NotImplementedError when it is run.
C6_AbstractMethodsRaise ==
    ret.op \in AbstractMethods => ret.status = "NotImplementedError"

\* C7: AgentState starts with an empty task_dict; a registry operation never
\* changes task_dict, and an entry leaves task_dict only by the caller's own
\* removal, a step that touches nothing but task_dict.
C7_RegistryNeverEvicts ==
    /\ task_dict = EmptyDict
    /\ [][/\ ret'.op \in Getters => task_dict' = task_dict
          /\ (\E k \in DOMAIN task_dict : k \notin DOMAIN task_dict')
                => /\ ret' = Idle
                   /\ UNCHANGED <<steps, outputs, tasks, heap, enqueued>>]_vars

C7_Witness ==
    /\ Len(tasks) = 2
    /\ Cardinality(DOMAIN task_dict) = 1
    /\ ret.op = "get_completed_steps" /\ ret.status = "KeyError"

\* C8: a TransformationDefinition with its three fields set, serialized with
\* dict() or json() and parsed again, gives a record equal to it; the
\* serialized form holds exactly the fields that were set.
C8_RoundTrip ==
    /\ dto.phase = "dict" => DOMAIN dto.ser = dto.d.fields_set
    /\ dto.phase = "json" => {dto.ser[i][1] : i \in DOMAIN dto.ser} = dto.d.fields_set
    /\ (dto.phase = "parsed" /\ dto.d.fields_set = Fields)
          => /\ dto.out.status = "ok"
             /\ Eq(dto.out.value, dto.d)
             /\ dto.out.value = dto.d

C8_Witness ==
    /\ dto.phase = "parsed" /\ dto.via = "json"
    /\ dto.d.fields_set = Fields
    /\ dto.d.label \in Values(TransformationCategories)
    /\ dto.out.status = "ok"

\* C9: within each task the steps are run in the order they were queued: the
\* task_step of the completed outputs, followed by the steps still queued, is
\* the sequence of steps queued so far; completed_steps only grows at its end.
C9_FifoOrder ==
    /\ [](\A t \in DOMAIN tasks :
            TaskStepsOf(heap[tasks[t].completed_steps]) \o heap[tasks[t].step_queue]
                = enqueued[t])
    /\ [][\A t \in DOMAIN tasks :
            IsPrefix(heap[tasks[t].completed_steps], heap'[tasks[t].completed_steps])]_vars

C9_Witness ==
    \E t \in DOMAIN tasks :
        /\ Len(heap[tasks[t].completed_steps]) >= 2
        /\ heap[tasks[t].step_queue] # <<>>
        /\ \E o \in DOMAIN outputs : Len(outputs[o].next_steps) >= 2

\* C10 as stated: every TaskStepOutput with is_last true has no next_steps.
C10_LastHasNoNextSteps ==
    \A o \in DOMAIN outputs : outputs[o].is_last => outputs[o].next_steps = <<>>

\* C10 as amended: is_last and next_steps are unrelated; an output that has
\* is_last true together with next_steps was given is_last explicitly, an
\* output constructed without is_last has is_last false.
C10_LastOnlyWhenGiven ==
    \A o \in DOMAIN outputs :
        /\ "is_last" \notin outputs[o].fields_set => ~outputs[o].is_last
        /\ (outputs[o].is_last /\ outputs[o].next_steps # <<>>)
              => "is_last" \in outputs[o].fields_set

C10_Witness ==
    \E t \in DOMAIN tasks :
        \E i \in DOMAIN heap[tasks[t].completed_steps] :
            LET o == outputs[heap[tasks[t].completed_steps][i]]
            IN  "is_last" \notin o.fields_set /\ o.next_steps # <<>>

====
